---- MODULE Spec2Model ----
(***************************************************************************)
(* Route planner of the liquor-store tracker: the route cache, the         *)
(* useRouteOptimizer hook's calculateRoute, the googleMaps service's       *)
(* calculateRoute, and the batch planner (createRouteBatches /             *)
(* calculateBatchRoutes), as written in src/docs/ROUTE_PLANNER_*.md and    *)
(* src/src/services/googleMaps.ts.                                         *)
(*                                                                         *)
(* The entry points share no state with each other, so one behaviour of    *)
(* the model runs one of them; `prog` (fixed by Init) says which:          *)
(*   "cache"   the RouteCache get/set operations called directly           *)
(*   "hook"    useRouteOptimizer.calculateRoute over its private cache     *)
(*   "service" services/googleMaps.calculateRoute (no cache)               *)
(*   "pattern" API reference, Pattern 2 (cache keyed by the joined ids)    *)
(*   "batch"   createRouteBatches followed by calculateBatchRoutes         *)
(*   "sequencer" optimizeNearestNeighbor applied to a stop list            *)
(*   "stats"   extractRouteStats and the route panel's totals              *)
(*   "overlap" two calculateRoute invocations of the hook at once          *)
(***************************************************************************)
EXTENDS Integers, Sequences, FiniteSets, TLC

VARIABLES
    prog,        \* which entry point this behaviour runs
    now,         \* Date.now(), in milliseconds
    cache,       \* the Map of the route cache, in insertion order
    last,        \* the operation that has just completed, and what it returned
    call,        \* the calculateRoute invocation in progress
    routeCache,  \* Pattern 2's routeCache Map
    bStores,     \* batch planner: the ordered stop list
    bVariant,    \* batch planner: which of the two documented loops
    batches,     \* batch planner: the segments
    bIdx,        \* batch planner: index of the segment being processed
    bpc,         \* batch planner: position in calculateBatchRoutes
    bResults,    \* batch planner: the local results array
    bRequests,   \* batch planner: provider requests issued so far
    bReturned,   \* batch planner: what calculateBatchRoutes returned
    other,       \* a second calculateRoute invocation, and whether the two
                 \* have been waiting for the provider at once
    app,         \* the StoreState held by the store reducer
    pendingRoute,\* handleCalculateRoute awaiting its route: the stores it sent
    timers,      \* the pending timers of the save effect
    storage,     \* what saveToStorage wrote last (at first: what was loaded)
    stats        \* a provider result's legs and the totals computed from them

vars == <<prog, now, cache, last, call, routeCache,
          bStores, bVariant, batches, bIdx, bpc, bResults, bRequests, bReturned,
          other, app, pendingRoute, timers, storage, stats>>

cacheVars == <<cache, routeCache>>
batchVars == <<bStores, bVariant, batches, bIdx, bpc, bResults, bRequests, bReturned>>
appVars == <<other, app, pendingRoute, timers, storage, stats>>

----------------------------------------------------------------------------
(* Bounds of the model *)

\* number of clock advances in one behaviour
MaxTicks == 1
\* longest stop list, of those enumerated in full, submitted to calculateRoute
\* or to the cache
MaxStops == 3
\* longest stop list given to optimizeNearestNeighbor on its own
MaxSequenced == 4
\* most legs of a provider result whose totals are computed
MaxLegs == 3
\* the one long stop list submitted to the service's calculateRoute
MaxRouteStops == 28
\* most waypoints for which every order the provider may return is enumerated
MaxPermuted == 3
\* longest stop list given to the batch planner
MaxBatchStops == 60
\* capacity of the RouteCache class (maxSize) and of the hook's cache (the
\* literal in setCachedRoute); the source has 50 for both, scaled down here
maxSize == 2
HookCacheLimit == 1

\* no event is dispatched to the provider after MaxClock milliseconds (a
\* timer already set still fires)
MaxClock == 1000

(* Program constants *)

\* delay of the save timer, in milliseconds
SaveDelay == 500

TTL == 5 * 60 * 1000
batchSize == 24

----------------------------------------------------------------------------
(* Strings: a store id is a sequence of character codes; Comma is ','      *)
(* which sorts before every letter and digit.                              *)

Comma == 0

Range(s) == {s[i] : i \in 1..Len(s)}

DistinctSeqs(S, n) ==
    UNION {{s \in [1..k -> S] : \A i, j \in 1..k : i # j => s[i] # s[j]} : k \in 0..n}

Perms(s) == {p \in [1..Len(s) -> Range(s)] : Range(p) = Range(s)}

\* comparison of two strings by code units, as Array.prototype.sort does
LexLess(a, b) ==
    \E i \in 1..Len(b) :
        /\ \A j \in 1..(i - 1) : j <= Len(a) /\ a[j] = b[j]
        /\ (i > Len(a) \/ a[i] < b[i])

RECURSIVE InsertSorted(_, _)
InsertSorted(x, s) ==
    IF s = <<>> THEN <<x>>
    ELSE IF LexLess(x, Head(s)) THEN <<x>> \o s
    ELSE <<Head(s)>> \o InsertSorted(x, Tail(s))

RECURSIVE SortIds(_)
SortIds(ids) ==
    IF ids = <<>> THEN <<>>
    ELSE InsertSorted(ids[Len(ids)], SortIds(SubSeq(ids, 1, Len(ids) - 1)))

RECURSIVE Join(_)
Join(ids) ==
    IF ids = <<>> THEN <<>>
    ELSE IF Len(ids) = 1 THEN ids[1]
    ELSE ids[1] \o <<Comma>> \o Join(Tail(ids))

\* the key without the sort
GetKey_Unsorted(storeIds) == Join(storeIds)

GetKey(storeIds) == Join(SortIds(storeIds))

----------------------------------------------------------------------------
(* The route cache *)

NoResult == [req |-> <<>>, hasOrder |-> FALSE, order |-> <<>>]

CacheIndex(c, key) ==
    IF \E i \in 1..Len(c) : c[i].key = key
    THEN CHOOSE i \in 1..Len(c) : c[i].key = key
    ELSE 0

RemoveAt(c, i) == SubSeq(c, 1, i - 1) \o SubSeq(c, i + 1, Len(c))

\* Map.delete(key)
MapDelete(c, key) ==
    IF CacheIndex(c, key) = 0 THEN c ELSE RemoveAt(c, CacheIndex(c, key))

\* Map.set(key, value): an existing key keeps its place
MapSet(c, key, value) ==
    IF CacheIndex(c, key) = 0 THEN Append(c, value)
    ELSE [c EXCEPT ![CacheIndex(c, key)] = value]

\* expiry one millisecond early
Expired_AtTTL(entry, t) == t - entry.timestamp >= TTL

Expired(entry, t) == t - entry.timestamp > TTL

\* a lookup that renews the timestamp of the entry it returns
getCachedRoute_Refresh(c, storeIds, t) ==
    LET key == GetKey(storeIds)
        i == CacheIndex(c, key)
    IN  IF i # 0
        THEN IF Expired(c[i], t)
             THEN [cache |-> MapDelete(c, key), ret |-> NoResult, hit |-> FALSE]
             ELSE [cache |-> [c EXCEPT ![i].timestamp = t],
                   ret |-> c[i].result, hit |-> TRUE]
        ELSE [cache |-> c, ret |-> NoResult, hit |-> FALSE]

getCachedRoute(c, storeIds, t) ==
    LET key == GetKey(storeIds)
        i == CacheIndex(c, key)
    IN  IF i # 0
        THEN IF Expired(c[i], t)
             THEN [cache |-> MapDelete(c, key), ret |-> NoResult, hit |-> FALSE]
             ELSE [cache |-> c, ret |-> c[i].result, hit |-> TRUE]
        ELSE [cache |-> c, ret |-> NoResult, hit |-> FALSE]

\* the sort reversed: the youngest entry
NewestIndex(c) ==
    CHOOSE i \in 1..Len(c) :
        \A j \in 1..Len(c) :
            \/ c[i].timestamp > c[j].timestamp
            \/ (c[i].timestamp = c[j].timestamp /\ i <= j)

\* first entry of Array.from(entries).sort(by timestamp): the sort is stable
OldestIndex(c) ==
    CHOOSE i \in 1..Len(c) :
        \A j \in 1..Len(c) :
            \/ c[i].timestamp < c[j].timestamp
            \/ (c[i].timestamp = c[j].timestamp /\ i <= j)

\* the size test off by one
AtCapacity_Strict(c, limit) == Len(c) > limit

AtCapacity(c, limit) == Len(c) >= limit

EvictOldest(c) == IF c = <<>> THEN c ELSE RemoveAt(c, OldestIndex(c))

\* the body shared by RouteCache.set and setCachedRoute
CachePut(c, limit, storeIds, result, t) ==
    LET key == GetKey(storeIds)
        c1 == IF AtCapacity(c, limit) THEN EvictOldest(c) ELSE c
    IN  MapSet(c1, key, [key |-> key, storeIds |-> SortIds(storeIds),
                         result |-> result, timestamp |-> t])

RouteCacheSet(c, storeIds, result, t) == CachePut(c, maxSize, storeIds, result, t)

\* a put that leaves an entry already cached as it is
setCachedRoute_IfAbsent(c, storeIds, result, t) ==
    IF CacheIndex(c, GetKey(storeIds)) # 0 THEN c
    ELSE CachePut(c, HookCacheLimit, storeIds, result, t)

setCachedRoute(c, storeIds, result, t) == CachePut(c, HookCacheLimit, storeIds, result, t)

CacheKeys(c) == {c[i].key : i \in 1..Len(c)}
CacheEntries(c) == {c[i] : i \in 1..Len(c)}

----------------------------------------------------------------------------
(* Stores.  A coordinate is a JavaScript number: NaN or a finite value (in  *)
(* degrees).  All stores of the model lie on one meridian.                  *)

Num(v) == [nan |-> FALSE, v |-> v]
NaN == [nan |-> TRUE, v |-> 0]

Store(id, lat) == [id |-> id, lat |-> lat, lng |-> Num(-77)]

StoreA == Store(<<1>>, Num(39))
StoreB == Store(<<2>>, Num(41))
\* latitude 0: a finite, in-range coordinate
StoreZ == Store(<<3>>, Num(0))
\* latitude 95: finite but outside [-90, 90]
StoreX == Store(<<4>>, Num(95))
\* latitude NaN
StoreN == Store(<<5>>, NaN)

Stores == {StoreA, StoreB, StoreZ, StoreX}

\* five stops with valid coordinates; from the first, the second and the third
\* are equally far
StoreP == Store(<<6>>, Num(40))
StoreQ == Store(<<7>>, Num(42))
StoreR == Store(<<8>>, Num(38))
StoreS == Store(<<9>>, Num(44))
StoreT == Store(<<10>>, Num(36))
FiveStops == <<StoreP, StoreQ, StoreR, StoreS, StoreT>>

\* a long selection: nothing limits how many stores are added to the route
ManyStops == [i \in 1..MaxRouteStops |-> Store(<<10 + i>>, Num(i))]

\* the stop lists submitted to the hook, and those submitted to the service
StoreLists == DistinctSeqs(Stores, MaxStops) \cup {FiveStops}
ServiceLists == DistinctSeqs(Stores \cup {StoreN}, MaxStops) \cup {FiveStops, ManyStops}

Ids(stores) == [i \in 1..Len(stores) |-> stores[i].id]

\* JavaScript truthiness of a number: NaN and 0 are falsy
Truthy(x) == ~x.nan /\ x.v # 0
isNaN(x) == x.nan

\* stores.filter(s => s.lat && s.lng && !isNaN(s.lat) && !isNaN(s.lng))
FilterValid(s) == Truthy(s.lat) /\ Truthy(s.lng) /\ ~isNaN(s.lat) /\ ~isNaN(s.lng)

RECURSIVE validStoresOf(_)
validStoresOf(stores) ==
    IF stores = <<>> THEN <<>>
    ELSE IF FilterValid(Head(stores))
    THEN <<Head(stores)>> \o validStoresOf(Tail(stores))
    ELSE validStoresOf(Tail(stores))

Abs(x) == IF x < 0 THEN -x ELSE x

\* on one meridian the haversine distance grows with the latitude difference;
\* a NaN coordinate makes it NaN
haversineDistance(a, b) ==
    IF a.lat.nan \/ b.lat.nan THEN NaN ELSE Num(Abs(a.lat.v - b.lat.v))

\* the comparison that lets a later stop at the same distance win
NumLess_OrEqual(x, y) == ~x.nan /\ ~y.nan /\ x.v <= y.v

\* currDist < prevDist; false when either is NaN
NumLess(x, y) == ~x.nan /\ ~y.nan /\ x.v < y.v

\* unvisited.reduce((prev, curr) => currDist < prevDist ? curr : prev)
RECURSIVE Nearest(_, _, _)
Nearest(current, prev, rest) ==
    IF rest = <<>> THEN prev
    ELSE Nearest(current,
                 IF NumLess(haversineDistance(current, Head(rest)),
                            haversineDistance(current, prev))
                 THEN Head(rest) ELSE prev,
                 Tail(rest))

IndexOf(s, x) == CHOOSE i \in 1..Len(s) : s[i] = x /\ \A j \in 1..(i - 1) : s[j] # x

RECURSIVE Visit(_, _)
Visit(current, unvisited) ==
    IF unvisited = <<>> THEN <<>>
    ELSE LET nearest == Nearest(current, Head(unvisited), Tail(unvisited))
         IN  <<nearest>> \o Visit(nearest, RemoveAt(unvisited, IndexOf(unvisited, nearest)))

optimizeNearestNeighbor(stores) ==
    IF Len(stores) <= 1 THEN stores
    ELSE <<Head(stores)>> \o Visit(Head(stores), Tail(stores))

----------------------------------------------------------------------------
(* The routing provider (google.maps.DirectionsService)                     *)

Statuses == {"INVALID_REQUEST", "MAX_WAYPOINTS_EXCEEDED", "NOT_FOUND",
             "ZERO_RESULTS", "OVER_QUERY_LIMIT", "REQUEST_DENIED", "UNKNOWN_ERROR"}

\* a request carries origin, intermediate waypoints and destination
Waypoints(req) == SubSeq(req, 2, Len(req) - 1)

\* waypoint_order: absent, or a permutation of 0..k-1 over the k waypoints
\* (beyond MaxPermuted waypoints: the submitted order or its reverse)
WaypointOrders(req) ==
    LET k == Len(Waypoints(req))
    IN  IF k <= MaxPermuted
        THEN {p \in [1..k -> 0..(k - 1)] : \A i, j \in 1..k : i # j => p[i] # p[j]}
        ELSE {[i \in 1..k |-> i - 1], [i \in 1..k |-> k - i]}

Responses(req) ==
    {[req |-> req, hasOrder |-> FALSE, order |-> <<>>]}
    \cup {[req |-> req, hasOrder |-> TRUE, order |-> p] : p \in WaypointOrders(req)}

\* one leg per consecutive pair of the request
Legs(result) == IF result.req = <<>> THEN 0 ELSE Len(result.req) - 1

----------------------------------------------------------------------------
(* What the last completed step did *)

NoStore == Store(<<>>, NaN)

Nothing == [op |-> "init", ids |-> <<>>, ret |-> NoResult, ok |-> FALSE,
            fromCache |-> FALSE, stops |-> <<>>, calls |-> 0, error |-> "",
            evicted |-> {}]

\* the entries of c whose key is gone in d
Removed(c, d) == {e \in CacheEntries(c) : e.key \notin CacheKeys(d)}

Idle == [pc |-> "idle", stores |-> <<>>, validStores |-> <<>>, req |-> <<>>,
         storeIds |-> <<>>]

----------------------------------------------------------------------------
(* The clock *)

\* the clock advances by an arbitrary amount; the model takes the two amounts
\* around the expiry boundary, so that ages 0, TTL and TTL + 1 all occur
Ticks(t) == t \div TTL

Tick ==
    /\ prog \in {"cache", "hook", "overlap"}
    /\ \E d \in {TTL, TTL + 1} :
        /\ Ticks(now + d) <= MaxTicks
        /\ now' = now + d
    /\ last' = [Nothing EXCEPT !.op = "tick"]
    /\ UNCHANGED <<prog, cache, call, routeCache>>
    /\ UNCHANGED batchVars
    /\ UNCHANGED appVars

----------------------------------------------------------------------------
(* RouteCache.get / RouteCache.set called directly *)

\* Store.id is any string: the id "1,2" holds the separator of the key
CommaId == StoreA.id \o <<Comma>> \o StoreB.id

CacheIdLists == DistinctSeqs({StoreA.id, StoreB.id}, MaxStops) \cup {<<CommaId>>}

CacheResults == {[req |-> <<StoreA, StoreB>>, hasOrder |-> FALSE, order |-> <<>>],
                 [req |-> <<StoreB, StoreA>>, hasOrder |-> FALSE, order |-> <<>>]}

CacheGet(storeIds) ==
    /\ prog = "cache"
    /\ LET r == getCachedRoute(cache, storeIds, now)
       IN  /\ cache' = r.cache
           /\ last' = [Nothing EXCEPT !.op = "get", !.ids = storeIds,
                                      !.ret = r.ret, !.ok = r.hit,
                                      !.evicted = Removed(cache, r.cache)]
    /\ UNCHANGED <<prog, now, call, routeCache>>
    /\ UNCHANGED batchVars
    /\ UNCHANGED appVars

CacheSet(storeIds, result) ==
    /\ prog = "cache"
    /\ cache' = RouteCacheSet(cache, storeIds, result, now)
    /\ last' = [Nothing EXCEPT !.op = "set", !.ids = storeIds, !.ret = result,
                               !.evicted = Removed(cache, cache')]
    /\ UNCHANGED <<prog, now, call, routeCache>>
    /\ UNCHANGED batchVars
    /\ UNCHANGED appVars

----------------------------------------------------------------------------
(* useRouteOptimizer: extractRouteStats, calculateRoute *)

\* the stores named in RouteStats.stops: one per leg, then the destination
StatsStops(result, stores) ==
    [i \in 1..Legs(result) |-> IF i <= Len(stores) THEN stores[i] ELSE NoStore]
    \o <<IF stores = <<>> THEN NoStore ELSE stores[Len(stores)]>>

\* the order read as indices into the submitted stop list
FinalOrder_NoOffset(optimized, result) ==
    IF result.hasOrder
    THEN <<optimized[1]>>
         \o [i \in 1..Len(result.order) |-> optimized[result.order[i] + 1]]
         \o <<optimized[Len(optimized)]>>
    ELSE optimized

\* finalOrder of calculateRoute
FinalOrder(optimized, result) ==
    IF result.hasOrder
    THEN <<optimized[1]>>
         \o [i \in 1..Len(result.order) |-> optimized[result.order[i] + 2]]
         \o <<optimized[Len(optimized)]>>
    ELSE optimized

handleDirectionsError(status) ==
    CASE status = "INVALID_REQUEST" -> "Invalid route request. Check store coordinates."
      [] status = "MAX_WAYPOINTS_EXCEEDED" -> "Too many stops (max 25). Try selecting fewer stores."
      [] status = "NOT_FOUND" -> "Could not find a route between these locations."
      [] status = "OVER_QUERY_LIMIT" -> "Too many requests. Please wait and try again."
      [] OTHER -> status

\* calculateRoute up to its first suspension point (or its early return)
HookInvoke(stores) ==
    /\ prog = "hook"
    /\ call.pc = "idle"
    /\ LET validStores == validStoresOf(stores)
           storeIds == Ids(validStores)
           r == getCachedRoute(cache, storeIds, now)
       IN  IF Len(stores) < 2
           THEN /\ last' = [Nothing EXCEPT !.op = "rejected", !.error = "Please select at least 2 stores"]
                /\ UNCHANGED <<cache, call>>
           ELSE IF Len(validStores) < 2
           THEN /\ last' = [Nothing EXCEPT !.op = "rejected", !.error = "Some stores have invalid coordinates"]
                /\ UNCHANGED <<cache, call>>
           ELSE IF r.hit
           THEN /\ cache' = r.cache
                /\ last' = [Nothing EXCEPT !.op = "hit", !.ids = storeIds, !.ret = r.ret, !.ok = TRUE,
                                !.fromCache = TRUE,
                                !.stops = StatsStops(r.ret, validStores)]
                /\ UNCHANGED call
           ELSE /\ cache' = r.cache
                /\ call' = [pc |-> "awaiting", stores |-> stores,
                            validStores |-> validStores,
                            req |-> optimizeNearestNeighbor(validStores),
                            storeIds |-> storeIds]
                /\ last' = [Nothing EXCEPT !.op = "issued", !.ids = storeIds, !.calls = 1]
    /\ UNCHANGED <<prog, now, routeCache>>
    /\ UNCHANGED batchVars
    /\ UNCHANGED appVars

\* the provider answers OK: the rest of the try block
HookResolve(result) ==
    /\ prog = "hook"
    /\ call.pc = "awaiting"
    /\ result \in Responses(call.req)
    /\ cache' = setCachedRoute(cache, call.storeIds, result, now)
    /\ last' = [Nothing EXCEPT !.op = "resolved", !.ids = call.storeIds, !.ret = result, !.ok = TRUE,
                    !.stops = StatsStops(result, FinalOrder(call.req, result)),
                    !.calls = 1, !.evicted = Removed(cache, cache')]
    /\ call' = Idle
    /\ UNCHANGED <<prog, now, routeCache>>
    /\ UNCHANGED batchVars
    /\ UNCHANGED appVars

\* the provider fails: the catch block
HookReject(status) ==
    /\ prog = "hook"
    /\ call.pc = "awaiting"
    /\ last' = [Nothing EXCEPT !.op = "failed", !.ids = call.storeIds, !.calls = 1,
                    !.error = handleDirectionsError(status)]
    /\ call' = Idle
    /\ UNCHANGED <<prog, now, cache, routeCache>>
    /\ UNCHANGED batchVars
    /\ UNCHANGED appVars

----------------------------------------------------------------------------
(* Two invocations of the hook's calculateRoute in flight at once: nothing  *)
(* in the hook stops a second call while the first awaits the provider.     *)

NoOther == [inv |-> Idle, overlapped |-> FALSE]

\* one stop set in both orders, and a second stop set
OverlapLists == {<<StoreA, StoreB>>, <<StoreB, StoreA>>, <<StoreA, StoreX>>}

Slot(k) == IF k = 1 THEN call ELSE other.inv

\* calculateRoute up to its first suspension point, in invocation k
OverlapInvoke(k, stores) ==
    /\ prog = "overlap"
    /\ Slot(k).pc = "idle"
    /\ LET validStores == validStoresOf(stores)
           storeIds == Ids(validStores)
           r == getCachedRoute(cache, storeIds, now)
           inv == [pc |-> "awaiting", stores |-> stores,
                   validStores |-> validStores,
                   req |-> optimizeNearestNeighbor(validStores),
                   storeIds |-> storeIds]
           both == /\ Slot(3 - k).pc = "awaiting"
                   /\ Range(Slot(3 - k).storeIds) = Range(storeIds)
       IN  IF Len(stores) < 2 \/ Len(validStores) < 2
           THEN /\ last' = [Nothing EXCEPT !.op = "rejected"]
                /\ UNCHANGED <<cache, call, other>>
           ELSE IF r.hit
           THEN /\ cache' = r.cache
                /\ last' = [Nothing EXCEPT !.op = "hit", !.ids = storeIds, !.ret = r.ret, !.ok = TRUE,
                                !.fromCache = TRUE,
                                !.stops = StatsStops(r.ret, validStores)]
                /\ UNCHANGED <<call, other>>
           ELSE /\ cache' = r.cache
                /\ call' = IF k = 1 THEN inv ELSE call
                /\ other' = [inv |-> IF k = 2 THEN inv ELSE other.inv,
                             overlapped |-> both]
                /\ last' = [Nothing EXCEPT !.op = "issued", !.ids = storeIds, !.calls = 1]
    /\ UNCHANGED <<prog, now, routeCache>>
    /\ UNCHANGED batchVars
    /\ UNCHANGED <<app, pendingRoute, timers, storage, stats>>

\* the provider answers invocation k with OK
OverlapResolve(k, result) ==
    /\ prog = "overlap"
    /\ Slot(k).pc = "awaiting"
    /\ result \in Responses(Slot(k).req)
    /\ cache' = setCachedRoute(cache, Slot(k).storeIds, result, now)
    /\ last' = [Nothing EXCEPT !.op = "resolved", !.ids = Slot(k).storeIds, !.ret = result, !.ok = TRUE,
                    !.stops = StatsStops(result, FinalOrder(Slot(k).req, result)),
                    !.calls = 1, !.evicted = Removed(cache, cache')]
    /\ call' = IF k = 1 THEN Idle ELSE call
    /\ other' = IF k = 2 THEN [other EXCEPT !.inv = Idle] ELSE other
    /\ UNCHANGED <<prog, now, routeCache>>
    /\ UNCHANGED batchVars
    /\ UNCHANGED <<app, pendingRoute, timers, storage, stats>>

\* the provider fails invocation k
OverlapReject(k, status) ==
    /\ prog = "overlap"
    /\ Slot(k).pc = "awaiting"
    /\ last' = [Nothing EXCEPT !.op = "failed", !.ids = Slot(k).storeIds, !.calls = 1,
                    !.error = handleDirectionsError(status)]
    /\ call' = IF k = 1 THEN Idle ELSE call
    /\ other' = IF k = 2 THEN [inv |-> Idle, overlapped |-> FALSE]
                          ELSE [other EXCEPT !.overlapped = FALSE]
    /\ UNCHANGED <<prog, now, cache, routeCache>>
    /\ UNCHANGED batchVars
    /\ UNCHANGED <<app, pendingRoute, timers, storage, stats>>

----------------------------------------------------------------------------
(* services/googleMaps.ts: calculateRoute *)

ServiceInvoke(stores) ==
    /\ prog = "service"
    /\ call.pc = "idle"
    /\ IF Len(stores) < 2
       THEN /\ last' = [Nothing EXCEPT !.op = "null"]
            /\ UNCHANGED call
       ELSE /\ call' = [Idle EXCEPT !.pc = "awaiting", !.req = stores]
            /\ last' = [Nothing EXCEPT !.op = "issued", !.calls = 1]
    /\ UNCHANGED <<prog, now, cache, routeCache>>
    /\ UNCHANGED batchVars
    /\ UNCHANGED appVars

ServiceResolve(result) ==
    /\ prog = "service"
    /\ call.pc = "awaiting"
    /\ result \in Responses(call.req)
    /\ last' = [Nothing EXCEPT !.op = "resolved", !.ret = result, !.ok = TRUE, !.calls = 1]
    /\ call' = Idle
    /\ UNCHANGED <<prog, now, cache, routeCache>>
    /\ UNCHANGED batchVars
    /\ UNCHANGED appVars

ServiceReject(status) ==
    /\ prog = "service"
    /\ call.pc = "awaiting"
    /\ last' = [Nothing EXCEPT !.op = "failed", !.calls = 1, !.error = status]
    /\ call' = Idle
    /\ UNCHANGED <<prog, now, cache, routeCache>>
    /\ UNCHANGED batchVars
    /\ UNCHANGED appVars

----------------------------------------------------------------------------
(* API reference, Pattern 2: calculateRoute with routeCache *)

PatternLists == DistinctSeqs({StoreA, StoreB}, MaxStops)

\* stores.map(s => s.id).join(',')
PatternKey(stores) == Join(Ids(stores))

PatternInvoke(stores) ==
    /\ prog = "pattern"
    /\ call.pc = "idle"
    /\ LET key == PatternKey(stores)
           i == CacheIndex(routeCache, key)
       IN  IF i # 0
           THEN /\ last' = [Nothing EXCEPT !.op = "hit", !.ids = Ids(stores), !.ret = routeCache[i].result,
                                !.ok = TRUE, !.fromCache = TRUE]
                /\ UNCHANGED call
           ELSE /\ call' = [Idle EXCEPT !.pc = "awaiting", !.req = stores, !.storeIds = Ids(stores)]
                /\ last' = [Nothing EXCEPT !.op = "issued", !.ids = Ids(stores), !.calls = 1]
    /\ UNCHANGED <<prog, now, cache, routeCache>>
    /\ UNCHANGED batchVars
    /\ UNCHANGED appVars

PatternResolve(result) ==
    /\ prog = "pattern"
    /\ call.pc = "awaiting"
    /\ Len(call.req) >= 2
    /\ result \in Responses(call.req)
    /\ routeCache' = MapSet(routeCache, PatternKey(call.stores),
                            [key |-> PatternKey(call.stores), result |-> result])
    /\ last' = [Nothing EXCEPT !.op = "resolved", !.ids = call.storeIds, !.ret = result, !.ok = TRUE, !.calls = 1]
    /\ call' = Idle
    /\ UNCHANGED <<prog, now, cache>>
    /\ UNCHANGED batchVars
    /\ UNCHANGED appVars

PatternReject(status) ==
    /\ prog = "pattern"
    /\ call.pc = "awaiting"
    /\ last' = [Nothing EXCEPT !.op = "failed", !.ids = call.storeIds, !.calls = 1, !.error = status]
    /\ call' = Idle
    /\ UNCHANGED <<prog, now, cache, routeCache>>
    /\ UNCHANGED batchVars
    /\ UNCHANGED appVars

----------------------------------------------------------------------------
(* Batching: createRouteBatches / batchStores, calculateBatchRoutes         *)

Min(a, b) == IF a < b THEN a ELSE b

\* Array.prototype.slice(from, to) for 0 <= from <= to
Slice(s, from, to) == SubSeq(s, from + 1, Min(to, Len(s)))

\* segments that do not include the next segment's first stop
RECURSIVE BatchesFrom_NoOverlap(_, _)
BatchesFrom_NoOverlap(stores, i) ==
    IF i < Len(stores)
    THEN <<Slice(stores, i, i + batchSize)>> \o BatchesFrom_NoOverlap(stores, i + batchSize)
    ELSE <<>>

\* the loop stepping past the shared boundary stop
RECURSIVE BatchesFrom_Stride(_, _)
BatchesFrom_Stride(stores, i) ==
    IF i < Len(stores)
    THEN <<Slice(stores, i, i + batchSize + 1)>>
         \o BatchesFrom_Stride(stores, i + batchSize + 1)
    ELSE <<>>

RECURSIVE BatchesFrom(_, _)
BatchesFrom(stores, i) ==
    IF i < Len(stores)
    THEN <<Slice(stores, i, i + batchSize + 1)>> \o BatchesFrom(stores, i + batchSize)
    ELSE <<>>

createRouteBatches(stores) == BatchesFrom(stores, 0)

\* the provider returns one leg per consecutive pair of the request, and a
\* single leg when origin and destination are the same stop
BatchLegs(batch) == IF Len(batch) < 2 THEN 1 ELSE Len(batch) - 1

BatchStoreLists == {[i \in 1..n |-> i] : n \in 0..MaxBatchStops}

\* the caller builds the segments and enters calculateBatchRoutes
BatchStart ==
    /\ prog = "batch"
    /\ bpc = "start"
    /\ batches' = createRouteBatches(bStores)
    /\ bIdx' = 1
    /\ bpc' = "loop"
    /\ UNCHANGED <<prog, now, cache, last, call, routeCache>>
    /\ UNCHANGED <<bStores, bVariant, bResults, bRequests, bReturned>>
    /\ UNCHANGED appVars

\* if (batch.length < 2) continue;  -- only in the research document's loop
BatchSkip ==
    /\ prog = "batch"
    /\ bpc = "loop"
    /\ bIdx <= Len(batches)
    /\ bVariant = "research"
    /\ Len(batches[bIdx]) < 2
    /\ bIdx' = bIdx + 1
    /\ UNCHANGED <<prog, now, cache, last, call, routeCache>>
    /\ UNCHANGED <<bStores, bVariant, batches, bpc, bResults, bRequests, bReturned>>
    /\ UNCHANGED appVars

\* the requests sent without awaiting the answers
BatchRequest_FanOut ==
    /\ prog = "batch"
    /\ bpc = "loop"
    /\ bIdx <= Len(batches)
    /\ bVariant = "research" => Len(batches[bIdx]) >= 2
    /\ LET batch == batches[bIdx]
       IN  bRequests' = Append(bRequests,
                               [origin |-> batch[1],
                                destination |-> batch[Len(batch)],
                                waypoints |-> Waypoints(batch)])
    /\ bIdx' = bIdx + 1
    /\ UNCHANGED <<prog, now, cache, last, call, routeCache>>
    /\ UNCHANGED <<bStores, bVariant, batches, bpc, bResults, bReturned>>
    /\ UNCHANGED appVars

\* await directionsService.route({origin: batch[0], destination: batch[last], ...})
BatchRequest ==
    /\ prog = "batch"
    /\ bpc = "loop"
    /\ bIdx <= Len(batches)
    /\ bVariant = "research" => Len(batches[bIdx]) >= 2
    /\ LET batch == batches[bIdx]
       IN  bRequests' = Append(bRequests,
                               [origin |-> batch[1],
                                destination |-> batch[Len(batch)],
                                waypoints |-> Waypoints(batch)])
    /\ bpc' = "awaiting"
    /\ UNCHANGED <<prog, now, cache, last, call, routeCache>>
    /\ UNCHANGED <<bStores, bVariant, batches, bIdx, bResults, bReturned>>
    /\ UNCHANGED appVars

\* results.push(result)
BatchResolve ==
    /\ prog = "batch"
    /\ bpc = "awaiting"
    /\ bResults' = Append(bResults, [segment |-> bIdx, legs |-> BatchLegs(batches[bIdx])])
    /\ bIdx' = bIdx + 1
    /\ bpc' = "loop"
    /\ UNCHANGED <<prog, now, cache, last, call, routeCache>>
    /\ UNCHANGED <<bStores, bVariant, batches, bRequests, bReturned>>
    /\ UNCHANGED appVars

\* a loop that swallows the failure and hands back what it has
BatchReject_Partial(status) ==
    /\ prog = "batch"
    /\ bpc = "awaiting"
    /\ bpc' = "failed"
    /\ bReturned' = bResults
    /\ last' = [Nothing EXCEPT !.op = "failed", !.error = status,
                               !.calls = Len(bRequests)]
    /\ UNCHANGED <<prog, now, cache, call, routeCache>>
    /\ UNCHANGED <<bStores, bVariant, batches, bIdx, bResults, bRequests>>
    /\ UNCHANGED appVars

\* the failure caught inside the loop, which then tries the segment again
BatchReject_Retry(status) ==
    /\ prog = "batch"
    /\ bpc = "awaiting"
    /\ bpc' = "loop"
    /\ last' = [Nothing EXCEPT !.op = "failed", !.error = status,
                               !.calls = Len(bRequests)]
    /\ UNCHANGED <<prog, now, cache, call, routeCache>>
    /\ UNCHANGED <<bStores, bVariant, batches, bIdx, bResults, bRequests, bReturned>>
    /\ UNCHANGED appVars

\* the awaited promise rejects: calculateBatchRoutes throws
BatchReject(status) ==
    /\ prog = "batch"
    /\ bpc = "awaiting"
    /\ bpc' = "failed"
    /\ last' = [Nothing EXCEPT !.op = "failed", !.error = status,
                               !.calls = Len(bRequests)]
    /\ UNCHANGED <<prog, now, cache, call, routeCache>>
    /\ UNCHANGED <<bStores, bVariant, batches, bIdx, bResults, bRequests, bReturned>>
    /\ UNCHANGED appVars

\* return results
BatchReturn ==
    /\ prog = "batch"
    /\ bpc = "loop"
    /\ bIdx > Len(batches)
    /\ bReturned' = bResults
    /\ bpc' = "returned"
    /\ last' = [Nothing EXCEPT !.op = "resolved", !.ok = TRUE,
                               !.calls = Len(bRequests)]
    /\ UNCHANGED <<prog, now, cache, call, routeCache>>
    /\ UNCHANGED <<bStores, bVariant, batches, bIdx, bResults, bRequests>>
    /\ UNCHANGED appVars

----------------------------------------------------------------------------
(* optimizeNearestNeighbor called on its own *)

SequencerLists == DistinctSeqs({StoreP, StoreQ, StoreR, StoreS}, MaxSequenced)

Sequence(stores) ==
    /\ prog = "sequencer"
    /\ call' = [Idle EXCEPT !.pc = "sequenced", !.stores = stores,
                            !.req = optimizeNearestNeighbor(stores)]
    /\ last' = [Nothing EXCEPT !.op = "sequenced"]
    /\ UNCHANGED <<prog, now, cache, routeCache>>
    /\ UNCHANGED batchVars
    /\ UNCHANGED appVars

----------------------------------------------------------------------------
(* The store reducer's state and the route panel *)

\* StoreState: the stores are kept by id, the settings by a version number
\* the state of the provider before it mounts; a null routeResult is NoResult
initialState(loadedStores) ==
    [stores |-> <<>>, settings |-> 0, isLoading |-> Len(loadedStores) > 0,
     selectedForRoute |-> <<>>, routeResult |-> NoResult]

NoRoute == [pc |-> "idle", stores |-> <<>>]

NoStats == [legs |-> <<>>, done |-> FALSE]

----------------------------------------------------------------------------
(* useStores: storeReducer, the effects of StoreProvider, getRouteStores,   *)
(* and handleCalculateRoute of the route panel.  The settings object is one *)
(* number; a store is updated in its latitude.                              *)

\* what localStorage holds when the module loads
LoadedLists(mode) ==
    IF mode = "reducer" THEN {<<StoreA, StoreB>>}
    ELSE IF mode = "autosave" THEN {<<>>, <<StoreA>>}
    ELSE {<<>>}

HasId(stores, id) == \E i \in 1..Len(stores) : stores[i].id = id

\* stores.find(s => s.id === id), for an id that is present
Find(stores, id) == stores[CHOOSE i \in 1..Len(stores) :
                              /\ stores[i].id = id
                              /\ \A j \in 1..(i - 1) : stores[j].id # id]

RECURSIVE Without(_, _)
Without(ids, id) ==
    IF ids = <<>> THEN <<>>
    ELSE IF Head(ids) = id THEN Without(Tail(ids), id)
    ELSE <<Head(ids)>> \o Without(Tail(ids), id)

RECURSIVE WithoutStore(_, _)
WithoutStore(stores, id) ==
    IF stores = <<>> THEN <<>>
    ELSE IF Head(stores).id = id THEN WithoutStore(Tail(stores), id)
    ELSE <<Head(stores)>> \o WithoutStore(Tail(stores), id)

storeReducer(state, action) ==
    CASE action.type = "SET_STORES" ->
            [state EXCEPT !.stores = action.payload, !.isLoading = FALSE]
      [] action.type = "UPDATE_STORE" ->
            [state EXCEPT !.stores =
                [i \in 1..Len(state.stores) |->
                    IF state.stores[i].id = action.payload.id
                    THEN [state.stores[i] EXCEPT !.lat = action.payload.updates]
                    ELSE state.stores[i]]]
      [] action.type = "DELETE_STORE" ->
            [state EXCEPT !.stores = WithoutStore(state.stores, action.payload)]
      [] action.type = "UPDATE_SETTINGS" ->
            [state EXCEPT !.settings = action.payload]
      [] action.type = "ADD_TO_ROUTE" ->
            IF action.payload \in Range(state.selectedForRoute) THEN state
            ELSE [state EXCEPT !.selectedForRoute = Append(@, action.payload)]
      [] action.type = "REMOVE_FROM_ROUTE" ->
            [state EXCEPT !.selectedForRoute = Without(@, action.payload)]
      [] action.type = "CLEAR_ROUTE" ->
            [state EXCEPT !.selectedForRoute = <<>>, !.routeResult = NoResult]
      [] action.type = "SET_ROUTE_RESULT" ->
            [state EXCEPT !.routeResult = action.payload]
      [] OTHER -> state

getRouteStores(state) ==
    LET Known(id) == HasId(state.stores, id)
        ids == SelectSeq(state.selectedForRoute, Known)
    IN  [i \in 1..Len(ids) |-> Find(state.stores, ids[i])]

\* the mount effect: a 100 ms timer when there are stores to load
MountEffect(loadedStores, t) ==
    IF Len(loadedStores) > 0
    THEN {[kind |-> "mount", due |-> t + 100, stores |-> loadedStores, settings |-> 0]}
    ELSE {}

\* the save effect run again without its cleanup: the earlier timer stays
SaveEffect_NoCleanup(ts, state, t) ==
    ts \cup
       (IF ~state.isLoading
        THEN {[kind |-> "save", due |-> t + SaveDelay,
               stores |-> state.stores, settings |-> state.settings]}
        ELSE {})

\* the save effect run again: the cleanup of the previous run clears its
\* timer, then a timer is set unless the state is loading
SaveEffect(ts, state, t) ==
    {x \in ts : x.kind # "save"} \cup
       (IF ~state.isLoading
        THEN {[kind |-> "save", due |-> t + SaveDelay,
               stores |-> state.stores, settings |-> state.settings]}
        ELSE {})

\* the actions that make a new stores array or settings object, or change
\* isLoading: the dependencies of the save effect
SaveDeps == {"SET_STORES", "UPDATE_STORE", "DELETE_STORE", "UPDATE_SETTINGS"}

\* dispatch and the render that follows it (the save effect is followed in
\* the "autosave" runs only: it reads and writes no route state)
Dispatch(action) ==
    /\ now <= MaxClock
    /\ app' = storeReducer(app, action)
    /\ timers' = IF prog = "autosave" /\ action.type \in SaveDeps
                 THEN SaveEffect(timers, app', now)
                 ELSE timers
    /\ last' = [Nothing EXCEPT !.op = action.type]
    /\ UNCHANGED <<prog, now, cache, call, routeCache, other, pendingRoute, storage, stats>>
    /\ UNCHANGED batchVars

StoreIds == {StoreA.id, StoreB.id}
UpdatedLats == {Num(40)}
SettingsValues == {0, 1}
\* amounts of time between two events, in milliseconds
Steps == {100, 250, 500}

deleteStore(id) ==
    /\ prog \in {"reducer", "autosave"}
    /\ HasId(app.stores, id)
    /\ Dispatch([type |-> "DELETE_STORE", payload |-> id])

updateStore(id, lat) ==
    /\ prog = "autosave"
    /\ HasId(app.stores, id)
    /\ Dispatch([type |-> "UPDATE_STORE", payload |-> [id |-> id, updates |-> lat]])

updateSettings(v) ==
    /\ prog = "autosave"
    /\ Dispatch([type |-> "UPDATE_SETTINGS", payload |-> v])

addToRoute(id) ==
    /\ prog = "reducer"
    /\ HasId(app.stores, id)
    /\ Dispatch([type |-> "ADD_TO_ROUTE", payload |-> id])

removeFromRoute(id) ==
    /\ prog = "reducer"
    /\ id \in Range(app.selectedForRoute)
    /\ Dispatch([type |-> "REMOVE_FROM_ROUTE", payload |-> id])

clearRoute ==
    /\ prog = "reducer"
    /\ Dispatch([type |-> "CLEAR_ROUTE", payload |-> 0])

\* the Plan Route button is disabled while a calculation is running
handleCalculateRoute ==
    /\ prog = "reducer"
    /\ pendingRoute.pc = "idle"
    /\ LET routeStores == getRouteStores(app)
       IN  IF Len(routeStores) < 2
           THEN /\ last' = [Nothing EXCEPT !.op = "null"]
                /\ UNCHANGED pendingRoute
           ELSE /\ pendingRoute' = [pc |-> "awaiting", stores |-> routeStores]
                /\ last' = [Nothing EXCEPT !.op = "issued", !.calls = 1]
    /\ UNCHANGED <<prog, now, cache, call, routeCache, other, app, timers, storage, stats>>
    /\ UNCHANGED batchVars

RouteResolve(result) ==
    /\ prog = "reducer"
    /\ pendingRoute.pc = "awaiting"
    /\ result \in Responses(pendingRoute.stores)
    /\ app' = storeReducer(app, [type |-> "SET_ROUTE_RESULT", payload |-> result])
    /\ pendingRoute' = NoRoute
    /\ last' = [Nothing EXCEPT !.op = "resolved", !.ret = result, !.ok = TRUE]
    /\ UNCHANGED <<prog, now, cache, call, routeCache, other, timers, storage, stats>>
    /\ UNCHANGED batchVars

RouteReject(status) ==
    /\ prog = "reducer"
    /\ pendingRoute.pc = "awaiting"
    /\ app' = storeReducer(app, [type |-> "SET_ROUTE_RESULT", payload |-> NoResult])
    /\ pendingRoute' = NoRoute
    /\ last' = [Nothing EXCEPT !.op = "failed", !.error = status]
    /\ UNCHANGED <<prog, now, cache, call, routeCache, other, timers, storage, stats>>
    /\ UNCHANGED batchVars

\* time passes with no timer due before it
Advance(d) ==
    /\ prog = "autosave"
    /\ now + d <= MaxClock
    /\ \A x \in timers : now + d <= x.due
    /\ now' = now + d
    /\ last' = [Nothing EXCEPT !.op = "advance"]
    /\ UNCHANGED <<prog, cache, call, routeCache, other, app, pendingRoute, timers, storage, stats>>
    /\ UNCHANGED batchVars

\* the earliest timer fires, at its due time
NextTimer(x) ==
    /\ x \in timers
    /\ \A y \in timers : x.due <= y.due

\* the mount timer: dispatch SET_STORES with the loaded stores
MountTimer(x) ==
    /\ prog \in {"reducer", "autosave"}
    /\ NextTimer(x)
    /\ x.kind = "mount"
    /\ now' = x.due
    /\ app' = storeReducer(app, [type |-> "SET_STORES", payload |-> x.stores])
    /\ timers' = IF prog = "autosave"
                 THEN SaveEffect(timers \ {x}, app', now')
                 ELSE timers \ {x}
    /\ last' = [Nothing EXCEPT !.op = "SET_STORES"]
    /\ UNCHANGED <<prog, cache, call, routeCache, other, pendingRoute, storage, stats>>
    /\ UNCHANGED batchVars

\* the save timer: saveToStorage with the stores and settings of the render
\* that set it
SaveTimer(x) ==
    /\ prog = "autosave"
    /\ NextTimer(x)
    /\ x.kind = "save"
    /\ now' = x.due
    /\ storage' = [stores |-> x.stores, settings |-> x.settings]
    /\ timers' = timers \ {x}
    /\ last' = [Nothing EXCEPT !.op = "save"]
    /\ UNCHANGED <<prog, cache, call, routeCache, other, app, pendingRoute, stats>>
    /\ UNCHANGED batchVars

----------------------------------------------------------------------------
(* extractRouteStats, and getTotalDistance / getTotalTime of the route panel *)

\* leg.distance and leg.duration are optional: absent, or a value
Absent == [has |-> FALSE, value |-> 0]
Val(v) == [has |-> TRUE, value |-> v]

LegKinds == [distance : {Absent, Val(1000), Val(2500)},
             duration : {Absent, Val(60), Val(4000)}]

LegLists == UNION {[1..n -> LegKinds] : n \in 1..MaxLegs}

\* leg.distance?.value || 0
OrZero(x) == IF x.has /\ x.value # 0 THEN x.value ELSE 0

\* the loop that stops one leg early
RECURSIVE Accumulate_SkipsLast(_, _, _)
Accumulate_SkipsLast(legs, i, acc) ==
    IF i >= Len(legs) THEN acc
    ELSE Accumulate_SkipsLast(legs, i + 1,
                    [distance |-> acc.distance + OrZero(legs[i].distance),
                     duration |-> acc.duration + OrZero(legs[i].duration)])

\* legs.forEach(leg => { totalDistance += ...; totalDuration += ... })
RECURSIVE Accumulate(_, _, _)
Accumulate(legs, i, acc) ==
    IF i > Len(legs) THEN acc
    ELSE Accumulate(legs, i + 1,
                    [distance |-> acc.distance + OrZero(legs[i].distance),
                     duration |-> acc.duration + OrZero(legs[i].duration)])

\* ((meters / 1000) * 0.621371).toFixed(1), in tenths of a mile (the factor
\* taken to four digits, to stay within 32-bit arithmetic)
MilesTenths(meters) == (meters * 6214 + 500000) \div 1000000

\* formatDuration / getTotalTime: whole hours and whole minutes
HoursMinutes(seconds) ==
    [hours |-> seconds \div 3600, minutes |-> (seconds % 3600) \div 60]

extractRouteStats(legs) ==
    LET t == Accumulate(legs, 1, [distance |-> 0, duration |-> 0])
    IN  [totalDistance |-> MilesTenths(t.distance),
         totalDuration |-> HoursMinutes(t.duration),
         totalDurationSeconds |-> t.duration]

\* routeResult.routes[0].legs.reduce((total, leg) => total + (... || 0), 0)
RECURSIVE ReduceLegs(_, _, _)
ReduceLegs(legs, field, total) ==
    IF legs = <<>> THEN total
    ELSE ReduceLegs(Tail(legs), field, total + OrZero(Head(legs)[field]))

getTotalDistance(legs) == MilesTenths(ReduceLegs(legs, "distance", 0))
getTotalTime(legs) == HoursMinutes(ReduceLegs(legs, "duration", 0))

\* one provider result is shown
ShowStats(legs) ==
    /\ prog = "stats"
    /\ ~stats.done
    /\ stats' = [legs |-> legs, done |-> TRUE,
                 routeStats |-> extractRouteStats(legs),
                 panelDistance |-> getTotalDistance(legs),
                 panelTime |-> getTotalTime(legs)]
    /\ UNCHANGED <<prog, now, cache, last, call, routeCache>>
    /\ UNCHANGED batchVars
    /\ UNCHANGED <<other, app, pendingRoute, timers, storage>>

----------------------------------------------------------------------------
(* The specification *)

Init ==
    /\ prog \in {"cache", "hook", "service", "pattern", "batch", "sequencer", "stats",
                "overlap", "reducer", "autosave"}
    /\ now = 0
    /\ cache = <<>>
    /\ routeCache = <<>>
    /\ last = Nothing
    /\ call = Idle
    /\ bStores \in (IF prog = "batch" THEN BatchStoreLists ELSE {<<>>})
    /\ bVariant \in (IF prog = "batch" THEN {"research", "apiref"} ELSE {"research"})
    /\ batches = <<>>
    /\ bIdx = 0
    /\ bpc = IF prog = "batch" THEN "start" ELSE "off"
    /\ bResults = <<>>
    /\ bRequests = <<>>
    /\ bReturned = <<>>
    /\ other = NoOther
    /\ \E loadedStores \in LoadedLists(prog) :
          /\ storage = [stores |-> loadedStores, settings |-> 0]
          /\ app = initialState(loadedStores)
          /\ timers = IF prog \in {"reducer", "autosave"}
                      THEN MountEffect(loadedStores, 0)
                           \cup SaveEffect({}, initialState(loadedStores), 0)
                      ELSE {}
    /\ pendingRoute = NoRoute
    /\ stats = NoStats

Next ==
    \/ Tick
    \/ \E storeIds \in CacheIdLists : CacheGet(storeIds)
    \/ \E storeIds \in CacheIdLists, result \in CacheResults : CacheSet(storeIds, result)
    \/ \E stores \in StoreLists : HookInvoke(stores)
    \/ \E result \in Responses(call.req) : HookResolve(result)
    \/ \E status \in Statuses : HookReject(status)
    \/ \E stores \in ServiceLists : ServiceInvoke(stores)
    \/ \E result \in Responses(call.req) : ServiceResolve(result)
    \/ \E status \in Statuses : ServiceReject(status)
    \/ \E stores \in PatternLists : PatternInvoke(stores)
    \/ \E result \in Responses(call.req) : PatternResolve(result)
    \/ \E status \in Statuses : PatternReject(status)
    \/ BatchStart
    \/ BatchSkip
    \/ BatchRequest
    \/ BatchResolve
    \/ \E status \in Statuses : BatchReject(status)
    \/ BatchReturn
    \/ \E stores \in SequencerLists : Sequence(stores)
    \/ \E legs \in LegLists : ShowStats(legs)
    \/ \E k \in {1, 2}, stores \in OverlapLists : OverlapInvoke(k, stores)
    \/ \E k \in {1, 2} : \E result \in Responses(Slot(k).req) : OverlapResolve(k, result)
    \/ \E k \in {1, 2}, status \in Statuses : OverlapReject(k, status)
    \/ \E id \in StoreIds : deleteStore(id)
    \/ \E id \in StoreIds, lat \in UpdatedLats : updateStore(id, lat)
    \/ \E v \in SettingsValues : updateSettings(v)
    \/ \E id \in StoreIds : addToRoute(id)
    \/ \E id \in StoreIds : removeFromRoute(id)
    \/ clearRoute
    \/ handleCalculateRoute
    \/ \E result \in Responses(pendingRoute.stores) : RouteResolve(result)
    \/ \E status \in Statuses : RouteReject(status)
    \/ \E d \in Steps : Advance(d)
    \/ \E x \in timers : MountTimer(x)
    \/ \E x \in timers : SaveTimer(x)

Spec == Init /\ [][Next]_vars

\* One route calculation through the service, or one batch run, with the
\* scheduling the runtime gives it: the code between two suspension points
\* runs to completion, and the provider answers every request it was sent
\* (with a result or with a failure status).
CallInit == Init /\ prog \in {"service", "batch"}

ProviderAnswersService ==
    \/ \E result \in Responses(call.req) : ServiceResolve(result)
    \/ \E status \in Statuses : ServiceReject(status)

ProviderAnswersBatch ==
    \/ BatchResolve
    \/ \E status \in Statuses : BatchReject(status)

CallNext ==
    \/ \E stores \in ServiceLists : ServiceInvoke(stores)
    \/ ProviderAnswersService
    \/ BatchStart
    \/ BatchSkip
    \/ BatchRequest
    \/ ProviderAnswersBatch
    \/ BatchReturn

Fairness ==
    /\ WF_vars(BatchStart)
    /\ WF_vars(BatchSkip)
    /\ WF_vars(BatchRequest)
    /\ WF_vars(BatchReturn)
    /\ WF_vars(ProviderAnswersBatch)
    /\ WF_vars(ProviderAnswersService)

FairSpec == CallInit /\ [][CallNext]_vars /\ Fairness

----------------------------------------------------------------------------
(* Vocabulary of the properties *)

\* a stop is valid when both coordinates are finite and in range
InRange(s) ==
    /\ ~s.lat.nan /\ s.lat.v >= -90 /\ s.lat.v <= 90
    /\ ~s.lng.nan /\ s.lng.v >= -180 /\ s.lng.v <= 180

ValidMembers(stores) == {s \in Range(stores) : InRange(s)}

IsPermutationOf(seq, set) == Len(seq) = Cardinality(set) /\ Range(seq) = set

\* an entry of c stored for exactly these stop identities and not older than TTL
LiveEntries(c, ids, t) ==
    {e \in CacheEntries(c) : Range(e.storeIds) = Range(ids) /\ t - e.timestamp <= TTL}

\* the provider's per-call limit on intermediate waypoints
ProviderLimit == 25

RECURSIVE Reassemble(_)
Reassemble(segs) ==
    IF segs = <<>> THEN <<>>
    ELSE IF Len(segs) = 1 THEN segs[1]
    ELSE Reassemble(SubSeq(segs, 1, Len(segs) - 1)) \o Tail(segs[Len(segs)])

----------------------------------------------------------------------------
(* C1: a calculateRoute that succeeds through the provider issues exactly   *)
(* one request and stores its result; a later calculateRoute for the same   *)
(* stop set, while that entry is still in the cache and not older than TTL, *)
(* is served from the cache: it issues no request and returns the stored    *)
(* result.                                                                  *)

C1_Stored ==
    (prog = "hook" /\ last.op = "resolved") =>
        /\ last.calls = 1
        /\ \E e \in CacheEntries(cache) :
              /\ Range(e.storeIds) = Range(last.ids)
              /\ e.result = last.ret
              /\ e.timestamp = now

\* a step of calculateRoute up to its suspension point or its return
C1_Served ==
    (prog = "hook" /\ call.pc = "idle" /\ last'.op \in {"hit", "issued"}) =>
        LET live == LiveEntries(cache, last'.ids, now)
        IN  live # {} =>
                /\ last'.op = "hit"
                /\ last'.calls = 0
                /\ call'.pc = "idle"
                /\ \E e \in live : last'.ret = e.result

C1_IdempotentWithinTTL == [](C1_Stored) /\ [][C1_Served]_vars

\* a second calculateRoute served from an entry aged exactly TTL
C1_Witness ==
    /\ prog = "hook" /\ last.op = "hit" /\ last.calls = 0
    /\ \E e \in CacheEntries(cache) : e.result = last.ret /\ now - e.timestamp = TTL

----------------------------------------------------------------------------
(* C2: a successful calculateRoute for a stop list with at least two valid  *)
(* stops names, in its route statistics, each valid stop of the list        *)
(* exactly once and no other stop, and has one leg fewer than stops.        *)

C2_Resolved ==
    (prog = "hook" /\ call.pc = "awaiting" /\ last'.op = "resolved"
        /\ Cardinality(ValidMembers(call.stores)) >= 2) =>
            /\ IsPermutationOf(last'.stops, ValidMembers(call.stores))
            /\ Legs(last'.ret) = Len(last'.stops) - 1

C2_Hit ==
    (prog = "hook" /\ call.pc = "idle" /\ last'.op = "hit") =>
        \A stores \in StoreLists :
            (HookInvoke(stores) /\ Cardinality(ValidMembers(stores)) >= 2) =>
                /\ IsPermutationOf(last'.stops, ValidMembers(stores))
                /\ Legs(last'.ret) = Len(last'.stops) - 1

C2_PermutationOfValidStops == [][C2_Resolved /\ C2_Hit]_vars

----------------------------------------------------------------------------
(* C3: a result stored under one ordering of the stop identities is found   *)
(* under every other ordering, by the route cache and by the cache of the   *)
(* API reference's Pattern 2 alike.                                         *)

C3_RouteCache ==
    (prog \in {"cache", "hook"} /\ last.op \in {"set", "resolved"}) =>
        \A q \in Perms(last.ids) : getCachedRoute(cache, q, now).hit

C3_Pattern ==
    (prog = "pattern" /\ last.op = "resolved") =>
        \A q \in Perms(last.ids) : CacheIndex(routeCache, Join(q)) # 0

----------------------------------------------------------------------------
(* C4: the cache never holds more entries than its maximum entry count.     *)

C4_CacheBounded ==
    /\ prog = "cache" => Len(cache) <= maxSize
    /\ prog = "hook" => Len(cache) <= HookCacheLimit

\* a put into a full cache that evicted an entry and left the cache full
C4_Witness ==
    /\ prog = "cache" /\ last.op = "set"
    /\ last.evicted # {}
    /\ Len(cache) = maxSize

----------------------------------------------------------------------------
(* C5: a put removes at most one entry of another key, and the entry it     *)
(* removes has the smallest timestamp of all entries present before the put.*)

C5_Put ==
    (prog \in {"cache", "hook"} /\ last'.op \in {"set", "resolved"}) =>
        LET removed == Removed(cache, cache')
        IN  /\ Cardinality(removed) <= 1
            /\ \A e \in removed : \A f \in CacheEntries(cache) :
                  e.timestamp <= f.timestamp

C5_EvictsSingleOldest == [][C5_Put]_vars

\* a put evicted an entry that was strictly older than one that stayed
C5_Witness ==
    /\ prog = "cache" /\ last.op = "set"
    /\ \E e \in last.evicted : \E f \in CacheEntries(cache) :
          f.key # GetKey(last.ids) /\ e.timestamp < f.timestamp

----------------------------------------------------------------------------
(* C6: get returns the stored result exactly when the key has an entry not  *)
(* older than TTL; an entry older than TTL is deleted and get returns       *)
(* nothing; get adds no entry and leaves the entries of other keys alone.   *)

C6_Get ==
    (\/ prog = "cache" /\ last'.op = "get"
     \/ prog = "hook" /\ call.pc = "idle" /\ last'.op \in {"hit", "issued"}) =>
        LET i == CacheIndex(cache, GetKey(last'.ids))
        IN  IF i # 0 /\ now - cache[i].timestamp <= TTL
            THEN last'.ok /\ last'.ret = cache[i].result /\ cache' = cache
            ELSE /\ ~last'.ok
                 /\ last'.ret = NoResult
                 /\ cache' = IF i = 0 THEN cache ELSE RemoveAt(cache, i)

C6_GetHonoursTTL == [][C6_Get]_vars

\* a get that returned an entry aged exactly TTL
C6_Witness ==
    /\ prog = "cache" /\ last.op = "get" /\ last.ok
    /\ \E e \in CacheEntries(cache) :
          e.key = GetKey(last.ids) /\ e.result = last.ret /\ now - e.timestamp = TTL

\* a get that deleted an entry older than TTL
C6_WitnessExpired ==
    /\ prog = "cache" /\ last.op = "get" /\ ~last.ok
    /\ last.evicted # {}

----------------------------------------------------------------------------
(* C7: when the provider fails, the call ends in failure without a route    *)
(* and without a cache entry for its stop set; a batch run that fails on a  *)
(* later segment returns nothing, not even the results of the segments that *)
(* succeeded.                                                               *)

C7_FailureLeavesNothing ==
    /\ (prog \in {"hook", "service", "pattern"} /\ last.op = "failed") =>
          /\ ~last.ok
          /\ last.ret = NoResult
          /\ last.stops = <<>>
          /\ \A e \in CacheEntries(cache) : Range(e.storeIds) # Range(last.ids)
          /\ CacheIndex(routeCache, Join(last.ids)) = 0
    /\ (prog = "batch" /\ bpc = "failed") =>
          /\ ~last.ok
          /\ bReturned = <<>>
          /\ cache = <<>>
          /\ routeCache = <<>>

\* zero-results on segment 2 of 3, after segment 1 succeeded
C7_Witness ==
    /\ prog = "batch" /\ bpc = "failed"
    /\ Len(batches) = 3 /\ bIdx = 2 /\ Len(bResults) = 1
    /\ last.error = "ZERO_RESULTS"

----------------------------------------------------------------------------
(* C8: a calculateRoute given fewer than two valid stops ends at once       *)
(* without a route, issues no provider request and leaves the cache alone.  *)

C8_Rejects(stores) ==
    Cardinality(ValidMembers(stores)) < 2 =>
        /\ call'.pc = "idle"
        /\ last'.calls = 0
        /\ ~last'.ok
        /\ cache' = cache

C8_Step ==
    /\ (prog = "hook" /\ call.pc = "idle") =>
          \A stores \in StoreLists : HookInvoke(stores) => C8_Rejects(stores)
    /\ (prog = "service" /\ call.pc = "idle") =>
          \A stores \in ServiceLists : ServiceInvoke(stores) => C8_Rejects(stores)

C8_InsufficientStops == [][C8_Step]_vars

----------------------------------------------------------------------------
(* C9: for N >= 2 distinct stops, the segments concatenated in order, each  *)
(* segment after the first without its first stop, are the input sequence.  *)

C9_SegmentsReassemble ==
    (prog = "batch" /\ bpc # "start" /\ Len(bStores) >= 2) =>
        Reassemble(batches) = bStores

\* three segments built from 60 stops
C9_Witness ==
    /\ prog = "batch" /\ bpc # "start"
    /\ Len(bStores) = 60 /\ Len(batches) = 3

----------------------------------------------------------------------------
(* C10: every segment has at most L + 2 stops; the last stop of a segment   *)
(* is the first stop of the next and they share no other stop; the          *)
(* destination of a provider request is the origin of the next request.     *)

C10_SegmentsOverlapByOne ==
    (prog = "batch" /\ bpc # "start" /\ Len(bStores) >= 2) =>
        /\ \A i \in 1..Len(batches) : Len(batches[i]) <= ProviderLimit + 2
        /\ \A i \in 1..(Len(batches) - 1) :
              /\ batches[i][Len(batches[i])] = batches[i + 1][1]
              /\ Range(batches[i]) \cap Range(batches[i + 1]) = {batches[i + 1][1]}
        /\ \A j \in 1..(Len(bRequests) - 1) :
              bRequests[j].destination = bRequests[j + 1].origin

\* the second request of a run has been issued, from the first one's destination
C10_Witness ==
    /\ prog = "batch" /\ Len(bRequests) >= 2
    /\ bRequests[1].destination = bRequests[2].origin
    /\ Len(batches[1]) = batchSize + 1


----------------------------------------------------------------------------
(* C11: when the number of stops N is at most ProviderLimit + 2, the batch  *)
(* planner returns exactly one segment, equal to the whole input sequence;  *)
(* no extra segment holding only the last stop.                             *)

C11_SingleSegment ==
    (/\ prog = "batch" /\ bpc # "start"
     /\ Len(bStores) >= 2 /\ Len(bStores) <= ProviderLimit + 2) =>
        batches = <<bStores>>

----------------------------------------------------------------------------
(* C12: for N >= 3 stops the batch planner returns exactly                  *)
(* ceil((N - 2) / ProviderLimit) segments, each with at least 2 stops, and  *)
(* a completed run has issued one provider call per segment.                *)

CeilDiv(a, b) == (a + b - 1) \div b

C12_SegmentCount ==
    (prog = "batch" /\ bpc # "start" /\ Len(bStores) >= 3) =>
        /\ Len(batches) = CeilDiv(Len(bStores) - 2, ProviderLimit)
        /\ \A i \in 1..Len(batches) : Len(batches[i]) >= 2
        /\ bpc = "returned" => Len(bRequests) = Len(batches)


----------------------------------------------------------------------------
(* C13: every provider request issued by route planning carries at most     *)
(* ProviderLimit intermediate waypoints, whatever the number of stops       *)
(* submitted.                                                               *)

C13_WaypointsWithinLimit ==
    /\ call.pc = "awaiting" => Len(Waypoints(call.req)) <= ProviderLimit
    /\ \A i \in 1..Len(bRequests) : Len(bRequests[i].waypoints) <= ProviderLimit


----------------------------------------------------------------------------
(* C14: within one batch-route invocation the provider calls are issued     *)
(* one at a time in segment order: a request is issued only when every      *)
(* earlier request has been answered, and never two are outstanding.        *)

\* requests of this invocation still waiting for their answer
Outstanding ==
    Len(bRequests) - Len(bResults) - (IF bpc = "failed" THEN 1 ELSE 0)

C14_AtMostOne ==
    prog = "batch" =>
        /\ Outstanding \in {0, 1}
        /\ Outstanding = 1 <=> bpc = "awaiting"

C14_Issue ==
    (prog = "batch" /\ bRequests' # bRequests) =>
        /\ Outstanding = 0
        /\ Len(bRequests') = Len(bRequests) + 1
        /\ bRequests'[Len(bRequests')].origin = batches[bIdx][1]
        /\ \A i \in 1..Len(bResults) : bResults[i].segment < bIdx

C14_Sequential == [](C14_AtMostOne) /\ [][C14_Issue]_vars

\* the third request goes out after two answers
C14_Witness ==
    /\ prog = "batch" /\ bpc = "awaiting"
    /\ Len(bRequests) = 3 /\ Len(bResults) = 2


----------------------------------------------------------------------------
(* C15: the second of two consecutive calculateRoute calls for the same     *)
(* stops, served from the cache, returns what the first returned: the same  *)
(* provider result and the same stops in the route statistics.              *)

C15_Repeat ==
    (/\ prog = "hook"
     /\ last.op = "resolved" /\ last'.op = "hit"
     /\ last'.ids = last.ids) =>
        /\ last'.ret = last.ret
        /\ last'.stops = last.stops

C15_SameResultFromCache == [][C15_Repeat]_vars


----------------------------------------------------------------------------
(* C16: when the provider fails with a listed status, the failure reported  *)
(* by calculateRoute is the outcome specific to that status; no listed      *)
(* status falls through to a raw or generic message.                        *)

ListedStatuses == Statuses \ {"UNKNOWN_ERROR"}

\* the outcome each provider status stands for
Outcome(status) ==
    CASE status = "INVALID_REQUEST" -> "InvalidRequest"
      [] status = "MAX_WAYPOINTS_EXCEEDED" -> "TooManyWaypoints"
      [] status \in {"NOT_FOUND", "ZERO_RESULTS"} -> "NoRouteFound"
      [] status = "OVER_QUERY_LIMIT" -> "QuotaExceeded"
      [] status = "REQUEST_DENIED" -> "ProviderAccessDenied"
      [] OTHER -> "ProviderUnavailable"

\* the outcome a reported message names
KindOf(message) ==
    CASE message = "Invalid route request. Check store coordinates." -> "InvalidRequest"
      [] message = "Too many stops (max 25). Try selecting fewer stores." -> "TooManyWaypoints"
      [] message = "Could not find a route between these locations." -> "NoRouteFound"
      [] message = "Too many requests. Please wait and try again." -> "QuotaExceeded"
      [] OTHER -> "Raw"

C16_Step ==
    (prog = "hook" /\ call.pc = "awaiting") =>
        \A status \in ListedStatuses :
            HookReject(status) => KindOf(last'.error) = Outcome(status)

C16_StatusSpecificFailure == [][C16_Step]_vars


----------------------------------------------------------------------------
(* C17: a route calculation moves through its phases only forward; once a   *)
(* segment's provider call fails the calculation is terminally failed (no   *)
(* retry of the segment, no request for later segments), and a calculation  *)
(* whose requests are answered always reaches its end or its failure.       *)

\* start, then requesting (per segment), then the end
Rank(pc) ==
    CASE pc = "start" -> 0
      [] pc \in {"loop", "awaiting"} -> 1
      [] pc \in {"returned", "failed"} -> 2
      [] OTHER -> 3

C17_Forward ==
    /\ prog = "batch" =>
        /\ Rank(bpc') >= Rank(bpc)
        /\ bIdx' >= bIdx
        /\ bpc \in {"returned", "failed"} => UNCHANGED batchVars
        /\ bRequests' # bRequests =>
              /\ Len(bRequests) < bIdx
              /\ \A i \in 1..Len(bRequests) : bRequests[i].origin # batches[bIdx][1]
    /\ (prog = "service" /\ call.pc = "awaiting" /\ call' # call) =>
        /\ call'.pc = "idle"
        /\ last'.op \in {"resolved", "failed"}
        /\ last'.calls = 1

C17_Ends ==
    /\ (prog = "batch") ~> (bpc \in {"returned", "failed"})
    /\ (prog = "service" /\ call.pc = "awaiting")
          ~> (call.pc = "idle" /\ last.op \in {"resolved", "failed"})

----------------------------------------------------------------------------
(* C18: when the response carries an optimized order p over the k           *)
(* intermediate waypoints of the call, the stop order derived for the call  *)
(* is the submitted origin, then intermediates p[0], ..., p[k-1] (indices   *)
(* into the call's intermediate list), then the submitted destination;      *)
(* without an optimized order the submitted order is kept.                  *)

C18_Step ==
    (prog = "hook" /\ call.pc = "awaiting" /\ last'.op = "resolved") =>
        LET req == call.req
            res == last'.ret
            stops == last'.stops
            k == Len(Waypoints(req))
        IN  /\ Len(stops) = Len(req)
            /\ stops[1] = req[1]
            /\ stops[Len(stops)] = req[Len(req)]
            /\ IF res.hasOrder
               THEN \A i \in 1..k : stops[i + 1] = Waypoints(req)[res.order[i] + 1]
               ELSE stops = req

----------------------------------------------------------------------------
(* C19: for stops with distinct identities optimizeNearestNeighbor returns  *)
(* a permutation of its input that starts with the input's first stop; each *)
(* later stop is, among the stops not yet placed, at minimum estimated      *)
(* distance from the stop placed just before it, the earliest in input      *)
(* order winning a tie; an input of 0 or 1 stops is returned unchanged.     *)

Dist(a, b) == haversineDistance(a, b).v

C19_NearestNeighbourOrder ==
    (prog = "sequencer" /\ call.pc = "sequenced") =>
        LET in == call.stores
            out == call.req
        IN  /\ Len(out) = Len(in)
            /\ Range(out) = Range(in)
            /\ Len(in) <= 1 => out = in
            /\ Len(in) >= 1 => out[1] = in[1]
            /\ \A i \in 2..Len(out) :
                  \A x \in Range(in) \ {out[j] : j \in 1..(i - 1)} :
                      /\ Dist(out[i - 1], out[i]) <= Dist(out[i - 1], x)
                      /\ Dist(out[i - 1], out[i]) = Dist(out[i - 1], x)
                            => IndexOf(in, out[i]) <= IndexOf(in, x)

\* two stops equally far from the first: the one earlier in the input is next
C19_Witness ==
    /\ prog = "sequencer" /\ call.pc = "sequenced"
    /\ call.stores = <<StoreP, StoreR, StoreQ, StoreS>>
    /\ call.req = <<StoreP, StoreR, StoreQ, StoreS>>


----------------------------------------------------------------------------
(* C20: a calculateRoute call served from the cache issues no provider call *)
(* and leaves the cache exactly as it was: no entry added, removed or       *)
(* replaced, and the timestamp of the entry read is not renewed.            *)

C20_Hit ==
    (prog = "hook" /\ call.pc = "idle" /\ last'.op = "hit") =>
        /\ cache' = cache
        /\ call' = call
        /\ last'.calls = 0

C20_HitLeavesCacheUntouched == [][C20_Hit]_vars

\* an entry created at time 0 is read when it is exactly TTL old
C20_Witness ==
    /\ prog = "hook" /\ last.op = "hit" /\ last.fromCache
    /\ now = TTL
    /\ Len(cache) = 1 /\ cache[1].timestamp = 0


----------------------------------------------------------------------------
(* C21: in every route result shown, the total distance is the sum of the   *)
(* distances of all its legs and the total duration the sum of their        *)
(* durations, a leg with a missing value counting 0; the totals are         *)
(* computed from the legs.                                                  *)

\* the legs' values of one field, a missing one counting 0
Present(legs, field) == {i \in 1..Len(legs) : legs[i][field].has}

RECURSIVE SumAt(_, _, _)
SumAt(legs, field, I) ==
    IF I = {} THEN 0
    ELSE LET i == CHOOSE j \in I : TRUE
         IN  legs[i][field].value + SumAt(legs, field, I \ {i})

LegSum(legs, field) == SumAt(legs, field, Present(legs, field))

----------------------------------------------------------------------------
(* C22: the validation of calculateRoute keeps a stop exactly when its      *)
(* latitude and longitude are finite and in range: every such stop          *)
(* (latitude or longitude 0 included) takes part in the route, every other  *)
(* stop is dropped before the provider call.                                *)

C22_KeepsExactlyTheValid ==
    /\ (prog = "hook" /\ call.pc = "awaiting") =>
          /\ Range(call.validStores) = ValidMembers(call.stores)
          /\ Range(call.req) = ValidMembers(call.stores)
    /\ (prog = "service" /\ call.pc = "awaiting") =>
          \A s \in Range(call.req) : InRange(s)


----------------------------------------------------------------------------
(* C23: every successful calculateRoute, computed through the provider or   *)
(* served from the cache, returns a route whose first stop is the first     *)
(* valid stop of the submitted list.                                        *)

C23_StartsAtFirstValid ==
    (prog = "hook" /\ last.op \in {"resolved", "hit"}) =>
        /\ last.ret.req[1].id = last.ids[1]
        /\ last.stops[1].id = last.ids[1]


----------------------------------------------------------------------------
(* C24: when two calculateRoute invocations for the same stop set overlap,  *)
(* the second looking into the cache before the first's provider call has   *)
(* returned, each issues its own provider call; after both have succeeded   *)
(* the cache holds exactly one entry for the stop set, with the result and  *)
(* the timestamp of the invocation whose call returned last; the cache      *)
(* never exceeds its size bound.                                            *)

EntriesFor(c, ids) == {e \in CacheEntries(c) : Range(e.storeIds) = Range(ids)}

C24_Bounded == prog = "overlap" => Len(cache) <= HookCacheLimit

C24_Step ==
    /\ (/\ prog = "overlap"
        /\ last'.op \in {"hit", "issued"}
        /\ EntriesFor(cache, last'.ids) = {}) =>
            (last'.op = "issued" /\ last'.calls = 1)
    /\ (prog = "overlap" /\ last'.op = "resolved") =>
            /\ Cardinality(EntriesFor(cache', last'.ids)) = 1
            /\ \A e \in EntriesFor(cache', last'.ids) :
                  e.result = last'.ret /\ e.timestamp = now

----------------------------------------------------------------------------
(* C25: a put for a key that is already cached replaces that key's entry    *)
(* (new result, timestamp = now) and removes no entry of another key, also  *)
(* when the cache is full: the set of cached keys is the same after it.     *)

C25_Step ==
    (/\ prog = "cache"
     /\ last'.op = "set"
     /\ GetKey(last'.ids) \in CacheKeys(cache)) =>
        /\ CacheKeys(cache') = CacheKeys(cache)
        /\ \A e \in CacheEntries(cache') :
              e.key = GetKey(last'.ids) =>
                  (e.result = last'.ret /\ e.timestamp = now)

C25_OverwriteKeepsKeys == [][C25_Step]_vars


----------------------------------------------------------------------------
(* C26: two stop sets have the same cache key only if they hold the same    *)
(* ids, whatever characters the ids contain, the separator ',' included; a  *)
(* get for one stop set never returns the route stored for another.         *)

C26_Step ==
    (prog = "cache" /\ last'.op = "get" /\ last'.ok) =>
        \A e \in CacheEntries(cache) :
            e.result = last'.ret /\ e.key = GetKey(last'.ids) =>
                Range(e.storeIds) = Range(last'.ids)

C26_KeyInjective == [][C26_Step]_vars


----------------------------------------------------------------------------
(* C27: with one TTL for all entries and a clock that never goes back, a    *)
(* put that inserts a new key evicts no entry still within its TTL while    *)
(* the cache holds an entry older than the TTL.                             *)

C27_Put ==
    (/\ prog = "cache"
     /\ last'.op = "set"
     /\ GetKey(last'.ids) \notin CacheKeys(cache)) =>
        \A e \in Removed(cache, cache') :
            ~Expired(e, now) => \A f \in CacheEntries(cache) : ~Expired(f, now)

C27_ClockForward == [][now' >= now]_vars

C27_ExpiredEvictedFirst == [][C27_Put]_vars /\ C27_ClockForward

\* a put of a new key evicted an expired entry, and a live entry of another
\* key stayed
C27_Witness ==
    /\ prog = "cache" /\ last.op = "set"
    /\ \E e \in last.evicted : Expired(e, now)
    /\ \E f \in CacheEntries(cache) :
          f.key # GetKey(last.ids) /\ ~Expired(f, now)


----------------------------------------------------------------------------
(* C28: changing the route selection clears the computed route: after       *)
(* ADD_TO_ROUTE of a store not yet in the route, and after                  *)
(* REMOVE_FROM_ROUTE, routeResult is null; a routeResult that is not null   *)
(* was computed for the current selectedForRoute, also when a calculation   *)
(* started before the change completes after it.                            *)

C28_Step ==
    (/\ prog = "reducer"
     /\ \/ last'.op = "ADD_TO_ROUTE" /\ app'.selectedForRoute # app.selectedForRoute
        \/ last'.op = "REMOVE_FROM_ROUTE") =>
        app'.routeResult = NoResult

C28_Belongs ==
    (prog = "reducer" /\ app.routeResult # NoResult) =>
        Ids(app.routeResult.req) = app.selectedForRoute

C28_RouteFollowsSelection == [](C28_Belongs) /\ [][C28_Step]_vars


----------------------------------------------------------------------------
(* C29: after DELETE_STORE(id) the deleted store is no longer part of the   *)
(* route: in every state reached by reducer actions from an empty route,    *)
(* selectedForRoute holds only ids of stores that are in stores, and the    *)
(* route has as many ids as getRouteStores returns stores.                  *)

C29_RouteOfKnownStores ==
    prog = "reducer" =>
        /\ \A id \in Range(app.selectedForRoute) : HasId(app.stores, id)
        /\ Len(app.selectedForRoute) = Len(getRouteStores(app))


----------------------------------------------------------------------------
(* C30: saving is debounced by 500 ms.  While isLoading is true nothing is  *)
(* saved; once loading has finished, a change to stores or settings that is *)
(* followed by another within 500 ms is never written, its pending save     *)
(* being cancelled; when 500 ms pass without a further change exactly one   *)
(* save runs, and what it writes is the current stores and settings.        *)

SaveTimers(ts) == {x \in ts : x.kind = "save"}

\* at most one save is pending; it is for the current state and due 500 ms
\* after the change that set it; none is pending while loading
C30_Pending ==
    prog = "autosave" =>
        /\ Cardinality(SaveTimers(timers)) <= 1
        /\ app.isLoading => SaveTimers(timers) = {}
        /\ \A x \in SaveTimers(timers) :
              /\ x.stores = app.stores /\ x.settings = app.settings
              /\ now <= x.due /\ x.due <= now + SaveDelay

C30_Step ==
    prog = "autosave" =>
        /\ (last'.op \in SaveDeps /\ ~app'.isLoading) =>
              SaveTimers(timers') =
                  {[kind |-> "save", due |-> now' + SaveDelay,
                    stores |-> app'.stores, settings |-> app'.settings]}
        /\ last'.op = "save" =>
              /\ ~app.isLoading
              /\ \E x \in SaveTimers(timers) : now' = x.due
              /\ storage'.stores = app'.stores
              /\ storage'.settings = app'.settings
              /\ SaveTimers(timers') = {}
        /\ last'.op # "save" => storage' = storage

====
